---- MODULE Spec2Model ----
(***************************************************************************)
(* m4b-joiner.py: joins audio files into one chaptered container.          *)
(* The model follows main() step by step: the order file is read, the      *)
(* concat manifest is opened, each order line is parsed, probed, validated *)
(* and appended to the chapter timeline, the metadata file is written, the *)
(* muxer (ffmpeg) is run and the temporary files are removed.              *)
(* Strings are sequences of one-character strings.                         *)
(***************************************************************************)
EXTENDS Integers, Sequences, FiniteSets, TLC

VARIABLES
    order_file,      \* environment: the lines of the order file
    disk,            \* environment: file path -> what is stored there / what ffprobe reports
    pc,              \* position in main()
    valid_lines,     \* main: stripped non-blank lines
    i,               \* main: 1-based index of the order line being processed
    chapters,        \* main: list of {title, start, end}
    current_time_ns, \* main: running cursor
    analysis_ref,    \* main: info of the first probed file, or None
    concat_exists,   \* input_dir/files_to_concat.txt exists
    concat_open,     \* the manifest's file handle is open
    concat_file,     \* paths written to the manifest, one per line
    metadata_exists, \* input_dir/metadata.txt exists
    meta_open,       \* the metadata file handle is open
    meta_file,       \* what has been written to metadata.txt
    k,               \* 1-based index of the chapter being serialised
    probes,          \* the ffprobe invocations made so far (file paths)
    ffmpeg_calls,    \* the number of ffmpeg invocations made so far
    ffmpeg_rc,       \* return code of the ffmpeg invocation (-1: not run)
    stdout,          \* the messages printed (kinds only)
    exit_code,       \* process exit status (-1: still running)
    text,            \* input of a pure function under test
    out              \* its result

vars == <<order_file, disk, pc, valid_lines, i, chapters, current_time_ns,
          analysis_ref, concat_exists, concat_open, concat_file,
          metadata_exists, meta_open, meta_file, k, probes, ffmpeg_calls,
          ffmpeg_rc, stdout, exit_code, text, out>>

mainVars == <<order_file, disk, valid_lines, i, chapters, current_time_ns,
              analysis_ref, concat_exists, concat_open, concat_file,
              metadata_exists, meta_open, meta_file, k, probes, ffmpeg_calls,
              ffmpeg_rc, stdout, exit_code>>

(***************************************************************************)
(* Bounds.                                                                 *)
(***************************************************************************)
\* lines in the order file
MaxLines == 3
\* largest probed duration, in ticks
MaxDurTicks == 2
\* length of a chapter title given to escape_metadata
MaxTitleLen == 4
\* length of an order line given to the line parser
MaxLineLen == 5

\* A duration in seconds is a rational d / (TicksPerNs * 10^9): ticks are
\* half nanoseconds, so that the truncation of int(duration * 1e9) shows.
TicksPerNs == 2

None == [kind |-> "None"]

(***************************************************************************)
(* Python string functions.                                                *)
(***************************************************************************)
IsSpace(c) == c = " "

RECURSIVE lstrip(_)
lstrip(s) ==
    IF s = <<>> THEN s
    ELSE IF IsSpace(Head(s)) THEN lstrip(Tail(s)) ELSE s

RECURSIVE rstrip(_)
rstrip(s) ==
    IF s = <<>> THEN s
    ELSE IF IsSpace(s[Len(s)]) THEN rstrip(SubSeq(s, 1, Len(s) - 1)) ELSE s

\* str.strip()
strip(s) == rstrip(lstrip(s))

\* index of the last occurrence of c in s, 0 when there is none
LastIndex(s, c) ==
    LET at == {n \in 1..Len(s) : s[n] = c}
    IN  IF at = {} THEN 0 ELSE CHOOSE n \in at : \A m \in at : n >= m

\* str.split(sep), read left to right from position n: a separator starts a
\* new part, any other character joins the last part
RECURSIVE split_from(_, _, _, _)
split_from(s, sep, n, parts) ==
    IF n > Len(s) THEN parts
    ELSE IF s[n] = sep THEN split_from(s, sep, n + 1, Append(parts, <<>>))
    ELSE split_from(s, sep, n + 1,
                    [parts EXCEPT ![Len(parts)] = Append(@, s[n])])

\* str.split(sep): splits at every occurrence of sep
split(s, sep) == split_from(s, sep, 1, << <<>> >>)

\* str.replace(old, new) for a one-character old
RECURSIVE replace(_, _, _)
replace(s, old, new) ==
    IF s = <<>> THEN <<>>
    ELSE (IF Head(s) = old THEN new ELSE <<Head(s)>>) \o replace(Tail(s), old, new)

\* os.path.splitext(p)[0] (posixpath)
splitext_root(p) ==
    LET sepIndex == LastIndex(p, "/")
        dotIndex == LastIndex(p, ".")
    IN  IF dotIndex > sepIndex
           /\ \E n \in (sepIndex + 1)..(dotIndex - 1) : p[n] # "."
        THEN SubSeq(p, 1, dotIndex - 1)
        ELSE p

\* os.path.join(a, b) (posixpath)
path_join(a, b) ==
    IF b # <<>> /\ Head(b) = "/" THEN b
    ELSE IF a = <<>> \/ a[Len(a)] = "/" THEN a \o b
    ELSE a \o <<"/">> \o b

(***************************************************************************)
(* escape_metadata                                                         *)
(***************************************************************************)
\* the replacements with the backslash done last
escape_backslash_last(txt) ==
    replace(replace(replace(replace(txt,
        "=", <<"\\", "=">>),
        ";", <<"\\", ";">>),
        "#", <<"\\", "#">>),
        "\\", <<"\\", "\\">>)

escape_metadata(txt) ==
    replace(replace(replace(replace(txt,
        "\\", <<"\\", "\\">>),
        "=", <<"\\", "=">>),
        ";", <<"\\", ";">>),
        "#", <<"\\", "#">>)

(***************************************************************************)
(* The order-line parser of main()'s loop.                                 *)
(***************************************************************************)
ParseLine(line) ==
    LET parts == split(line, "|")
        filename == strip(parts[1])
    IN  [filename |-> filename,
         chapter_title |-> IF Len(parts) > 1 THEN strip(parts[2])
                           ELSE splitext_root(filename)]

\* valid_lines = [line.strip() for line in lines if line.strip()]
RECURSIVE ValidLines(_)
ValidLines(ls) ==
    IF ls = <<>> THEN <<>>
    ELSE (IF strip(Head(ls)) # <<>> THEN <<strip(Head(ls))>> ELSE <<>>)
         \o ValidLines(Tail(ls))

(***************************************************************************)
(* The environment: order files and the input directory.                   *)
(***************************************************************************)
InputDir == <<"d">>

\* "a.m", " b|=|y" and a blank line
RawLines ==
    { <<"a", ".", "m">>,
      <<" ", "b", "|", "=", "|", "y">>,
      <<" ">> }

OrderFiles == UNION { [1..n -> RawLines] : n \in 0..MaxLines }

FilePaths == { path_join(InputDir, ParseLine(strip(l)).filename) :
                 l \in { r \in RawLines : strip(r) # <<>> } }

Durations == 0..MaxDurTicks

Profiles ==
    { [sample_rate |-> 44100, channels |-> 2],
      [sample_rate |-> 48000, channels |-> 2],
      [sample_rate |-> 44100, channels |-> 1] }

\* What ffprobe answers for a file: a non-zero exit, or JSON with
\* format.duration (or without it) and the list of selected audio streams.
ProbeOutputs ==
    { [rc |-> 1, has_duration |-> FALSE, duration |-> 0, streams |-> <<>>] }
    \cup { [rc |-> 0, has_duration |-> FALSE, duration |-> 0, streams |-> <<p>>] :
             p \in { [sample_rate |-> 44100, channels |-> 2] } }
    \cup { [rc |-> 0, has_duration |-> TRUE, duration |-> d, streams |-> <<>>] :
             d \in { MaxDurTicks } }
    \cup { [rc |-> 0, has_duration |-> TRUE, duration |-> d, streams |-> <<p>>] :
             d \in Durations, p \in Profiles }

FileStates ==
    { [kind |-> "missing"] } \cup { [kind |-> "file", probe |-> o] : o \in ProbeOutputs }

Disks == [FilePaths -> FileStates]

(***************************************************************************)
(* get_file_info and the per-file steps of main()'s loop.                  *)
(***************************************************************************)
Exit1 == [kind |-> "exit"]

\* subprocess.run(check=True) raises on a non-zero exit; data['format']
\* ['duration'] raises when absent; an empty stream list raises ValueError.
\* Every one of them ends in sys.exit(1).
get_file_info(o) ==
    IF o.rc # 0 THEN Exit1
    ELSE IF ~o.has_duration THEN Exit1
    ELSE IF o.streams = <<>> THEN Exit1
    ELSE [kind |-> "info",
          duration |-> o.duration,
          sample_rate |-> o.streams[1].sample_rate,
          channels |-> o.streams[1].channels]

\* os.path.isfile(file_path): a path outside the directory's files (the
\* directory itself, for an empty filename) is no file.
IsFile(path) == path \in DOMAIN disk /\ disk[path].kind = "file"

\* info['sample_rate'] != analysis_ref['sample_rate']
SampleRateMismatch(info, ref) == info.sample_rate # ref.sample_rate

\* the channel comparison left out
ChannelCheckMissing(info, ref) == FALSE

\* info['channels'] != analysis_ref['channels']
ChannelMismatch(info, ref) == info.channels # ref.channels

\* int(info['duration'] * 1_000_000_000): truncation toward zero
DurationNs(duration) ==
    IF duration >= 0 THEN duration \div TicksPerNs
    ELSE -((-duration) \div TicksPerNs)

\* a chapter that ignores the cursor
NewChapterAtZero(title, cur, duration_ns) ==
    [title |-> title, start |-> 0, end |-> duration_ns]

\* the chapter appended for a file of duration_ns starting at the cursor
NewChapter(title, cur, duration_ns) ==
    [title |-> title, start |-> cur, end |-> cur + duration_ns]

\* the cursor after that chapter: current_time_ns = end_time
AdvanceCursor(cur, duration_ns) == cur + duration_ns

\* file_path.replace('\\', '/')
SafePath(file_path) == replace(file_path, "\\", <<"/">>)

\* a loop that stops one line early
HasNextLineOffByOne(idx, ls) == idx < Len(ls)

\* for i, line in enumerate(valid_lines): another line is left
HasNextLine(idx, ls) == idx <= Len(ls)

\* the emptiness test left out
NeverNoChapters(chs) == FALSE

\* if not chapters
NoChapters(chs) == chs = <<>>

\* one [CHAPTER] block of metadata.txt
ChapterBlock(chapter) ==
    [section |-> "[CHAPTER]",
     TIMEBASE |-> "1/1000000000",
     START |-> chapter.start,
     END |-> chapter.end,
     title |-> escape_metadata(chapter.title)]

Entry == ParseLine(valid_lines[i])
FilePath == path_join(InputDir, Entry.filename)
Info == get_file_info(disk[FilePath].probe)

(***************************************************************************)
(* main()                                                                  *)
(***************************************************************************)
\* the state of main()'s variables and of the directory before the first step
ProgramStart ==
    /\ valid_lines = <<>>
    /\ i = 1
    /\ chapters = <<>>
    /\ current_time_ns = 0
    /\ analysis_ref = None
    /\ concat_exists = FALSE
    /\ concat_open = FALSE
    /\ concat_file = <<>>
    /\ metadata_exists = FALSE
    /\ meta_open = FALSE
    /\ meta_file = <<>>
    /\ k = 1
    /\ probes = <<>>
    /\ ffmpeg_calls = 0
    /\ ffmpeg_rc = -1
    /\ stdout = <<>>
    /\ exit_code = -1

Init ==
    /\ order_file \in OrderFiles
    /\ disk \in Disks
    /\ pc = "read_order"
    /\ ProgramStart
    /\ text = <<>>
    /\ out = <<>>

\* sys.exit(1) after printing msg
Abort(msg) ==
    /\ stdout' = Append(stdout, msg)
    /\ exit_code' = 1
    /\ pc' = "exited"

\* f.readlines() succeeds; valid_lines is computed
ReadOrderFile ==
    /\ pc = "read_order"
    /\ valid_lines' = ValidLines(order_file)
    /\ pc' = "open_concat"
    /\ UNCHANGED <<order_file, disk, i, chapters, current_time_ns, analysis_ref,
                   concat_exists, concat_open, concat_file, metadata_exists,
                   meta_open, meta_file, k, probes, ffmpeg_calls, ffmpeg_rc,
                   stdout, exit_code, text, out>>

\* open()/readlines() raises: "Error reading order file", sys.exit(1)
ReadOrderFileFails ==
    /\ pc = "read_order"
    /\ Abort("error_order_file")
    /\ UNCHANGED <<order_file, disk, valid_lines, i, chapters, current_time_ns,
                   analysis_ref, concat_exists, concat_open, concat_file,
                   metadata_exists, meta_open, meta_file, k, probes,
                   ffmpeg_calls, ffmpeg_rc, text, out>>

\* with open(concat_list_path, 'w') as concat_file
OpenConcat ==
    /\ pc = "open_concat"
    /\ concat_exists' = TRUE
    /\ concat_open' = TRUE
    /\ concat_file' = <<>>
    /\ i' = 1
    /\ pc' = "loop"
    /\ UNCHANGED <<order_file, disk, valid_lines, chapters, current_time_ns,
                   analysis_ref, metadata_exists, meta_open, meta_file, k,
                   probes, ffmpeg_calls, ffmpeg_rc, stdout, exit_code, text, out>>

\* a missing file that ends the run instead of being skipped
SkipMissingAborts ==
    /\ pc = "loop"
    /\ i <= Len(valid_lines)
    /\ ~(path_join(InputDir, ParseLine(valid_lines[i]).filename) \in DOMAIN disk
         /\ disk[path_join(InputDir, ParseLine(valid_lines[i]).filename)].kind = "file")
    /\ stdout' = Append(stdout, "warning_not_found")
    /\ exit_code' = 1
    /\ pc' = "exited"
    /\ concat_open' = FALSE
    /\ UNCHANGED <<order_file, disk, valid_lines, i, chapters, current_time_ns,
                   analysis_ref, concat_exists, concat_file, metadata_exists,
                   meta_open, meta_file, k, probes, ffmpeg_calls, ffmpeg_rc,
                   text, out>>

\* the file is not there: warning, continue
SkipMissing ==
    /\ pc = "loop"
    /\ HasNextLine(i, valid_lines)
    /\ ~IsFile(FilePath)
    /\ stdout' = Append(stdout, "warning_not_found")
    /\ i' = i + 1
    /\ UNCHANGED <<order_file, disk, pc, valid_lines, chapters, current_time_ns,
                   analysis_ref, concat_exists, concat_open, concat_file,
                   metadata_exists, meta_open, meta_file, k, probes,
                   ffmpeg_calls, ffmpeg_rc, exit_code, text, out>>

\* get_file_info exits: SystemExit leaves the with block (closing the
\* manifest) and passes the except Exception clause
ProbeFails ==
    /\ pc = "loop"
    /\ HasNextLine(i, valid_lines)
    /\ IsFile(FilePath)
    /\ Info = Exit1
    /\ probes' = Append(probes, FilePath)
    /\ concat_open' = FALSE
    /\ Abort("error_info")
    /\ UNCHANGED <<order_file, disk, valid_lines, i, chapters, current_time_ns,
                   analysis_ref, concat_exists, concat_file, metadata_exists,
                   meta_open, meta_file, k, ffmpeg_calls, ffmpeg_rc, text, out>>

\* a later file disagrees with the reference: sys.exit(1)
Mismatch ==
    /\ pc = "loop"
    /\ HasNextLine(i, valid_lines)
    /\ IsFile(FilePath)
    /\ Info # Exit1
    /\ analysis_ref # None
    /\ \/ /\ SampleRateMismatch(Info, analysis_ref)
          /\ Abort("error_sample_rate")
       \/ /\ ~SampleRateMismatch(Info, analysis_ref)
          /\ ChannelMismatch(Info, analysis_ref)
          /\ Abort("error_channels")
    /\ probes' = Append(probes, FilePath)
    /\ concat_open' = FALSE
    /\ UNCHANGED <<order_file, disk, valid_lines, i, chapters, current_time_ns,
                   analysis_ref, concat_exists, concat_file, metadata_exists,
                   meta_open, meta_file, k, ffmpeg_calls, ffmpeg_rc, text, out>>

\* the file passes: reference set (first file), chapter appended, manifest
\* line written
AppendChapter ==
    /\ pc = "loop"
    /\ HasNextLine(i, valid_lines)
    /\ IsFile(FilePath)
    /\ Info # Exit1
    /\ \/ analysis_ref = None
       \/ /\ analysis_ref # None
          /\ ~SampleRateMismatch(Info, analysis_ref)
          /\ ~ChannelMismatch(Info, analysis_ref)
    /\ probes' = Append(probes, FilePath)
    /\ analysis_ref' = IF analysis_ref = None THEN Info ELSE analysis_ref
    /\ chapters' = Append(chapters,
           NewChapter(Entry.chapter_title, current_time_ns, DurationNs(Info.duration)))
    /\ current_time_ns' = AdvanceCursor(current_time_ns, DurationNs(Info.duration))
    /\ concat_file' = Append(concat_file, SafePath(FilePath))
    /\ i' = i + 1
    /\ UNCHANGED <<order_file, disk, pc, valid_lines, concat_exists, concat_open,
                   metadata_exists, meta_open, meta_file, k, ffmpeg_calls,
                   ffmpeg_rc, stdout, exit_code, text, out>>

\* the loop ends and the with block closes the manifest
LoopDone ==
    /\ pc = "loop"
    /\ ~HasNextLine(i, valid_lines)
    /\ concat_open' = FALSE
    /\ pc' = "check_chapters"
    /\ UNCHANGED <<order_file, disk, valid_lines, i, chapters, current_time_ns,
                   analysis_ref, concat_exists, concat_file, metadata_exists,
                   meta_open, meta_file, k, probes, ffmpeg_calls, ffmpeg_rc,
                   stdout, exit_code, text, out>>

\* if not chapters: "No valid files found to process.", sys.exit(1)
NoValidFiles ==
    /\ pc = "check_chapters"
    /\ NoChapters(chapters)
    /\ Abort("no_valid_files")
    /\ UNCHANGED <<order_file, disk, valid_lines, i, chapters, current_time_ns,
                   analysis_ref, concat_exists, concat_open, concat_file,
                   metadata_exists, meta_open, meta_file, k, probes,
                   ffmpeg_calls, ffmpeg_rc, text, out>>

\* with open(metadata_path, 'w') as meta_file: the header line
OpenMeta ==
    /\ pc = "check_chapters"
    /\ ~NoChapters(chapters)
    /\ metadata_exists' = TRUE
    /\ meta_open' = TRUE
    /\ meta_file' = <<";FFMETADATA1">>
    /\ k' = 1
    /\ pc' = "write_meta"
    /\ UNCHANGED <<order_file, disk, valid_lines, i, chapters, current_time_ns,
                   analysis_ref, concat_exists, concat_open, concat_file, probes,
                   ffmpeg_calls, ffmpeg_rc, stdout, exit_code, text, out>>

\* for chapter in chapters: one block
WriteChapter ==
    /\ pc = "write_meta"
    /\ k <= Len(chapters)
    /\ meta_file' = Append(meta_file, ChapterBlock(chapters[k]))
    /\ k' = k + 1
    /\ UNCHANGED <<order_file, disk, pc, valid_lines, i, chapters, current_time_ns,
                   analysis_ref, concat_exists, concat_open, concat_file,
                   metadata_exists, meta_open, probes, ffmpeg_calls, ffmpeg_rc,
                   stdout, exit_code, text, out>>

\* the with block closes metadata.txt
CloseMeta ==
    /\ pc = "write_meta"
    /\ k > Len(chapters)
    /\ meta_open' = FALSE
    /\ pc' = "join"
    /\ UNCHANGED <<order_file, disk, valid_lines, i, chapters, current_time_ns,
                   analysis_ref, concat_exists, concat_open, concat_file,
                   metadata_exists, meta_file, k, probes, ffmpeg_calls,
                   ffmpeg_rc, stdout, exit_code, text, out>>

\* subprocess.run(cmd, check=True): success message, or the
\* CalledProcessError is caught and reported
RunFfmpeg ==
    /\ pc = "join"
    /\ \E rc \in {0, 1} :
         /\ ffmpeg_rc' = rc
         /\ stdout' = Append(stdout, IF rc = 0 THEN "success" ELSE "error_ffmpeg")
    /\ ffmpeg_calls' = ffmpeg_calls + 1
    /\ pc' = "cleanup"
    /\ UNCHANGED <<order_file, disk, valid_lines, i, chapters, current_time_ns,
                   analysis_ref, concat_exists, concat_open, concat_file,
                   metadata_exists, meta_open, meta_file, k, probes, exit_code,
                   text, out>>

\* finally: both temporary files are removed; main() returns
Cleanup ==
    /\ pc = "cleanup"
    /\ concat_exists' = FALSE
    /\ metadata_exists' = FALSE
    /\ exit_code' = 0
    /\ pc' = "exited"
    /\ UNCHANGED <<order_file, disk, valid_lines, i, chapters, current_time_ns,
                   analysis_ref, concat_open, concat_file, meta_open, meta_file,
                   k, probes, ffmpeg_calls, ffmpeg_rc, stdout, text, out>>

Next ==
    \/ ReadOrderFile
    \/ ReadOrderFileFails
    \/ OpenConcat
    \/ SkipMissing
    \/ ProbeFails
    \/ Mismatch
    \/ AppendChapter
    \/ LoopDone
    \/ NoValidFiles
    \/ OpenMeta
    \/ WriteChapter
    \/ CloseMeta
    \/ RunFfmpeg
    \/ Cleanup

Spec == Init /\ [][Next]_vars

(***************************************************************************)
(* escape_metadata on its own: every title over the reserved characters    *)
(* and an ordinary one, as main() calls it when it writes a title.         *)
(***************************************************************************)
TitleChars == {"\\", "=", ";", "#", "a"}

Titles == UNION { [1..n -> TitleChars] : n \in 0..MaxTitleLen }

NoFiles == [p \in FilePaths |-> [kind |-> "missing"]]

InitEscape ==
    /\ order_file = <<>>
    /\ disk = NoFiles
    /\ pc = "escape_in"
    /\ ProgramStart
    /\ text \in Titles
    /\ out = <<>>

\* escape_metadata(chapter['title'])
EscapeTitle ==
    /\ pc = "escape_in"
    /\ out' = escape_metadata(text)
    /\ pc' = "escaped"
    /\ UNCHANGED <<mainVars, text>>

NextEscape == EscapeTitle

SpecEscape == InitEscape /\ [][NextEscape]_vars

(***************************************************************************)
(* The order-line handling on its own: every raw line over a small         *)
(* alphabet is stripped, dropped when blank, and parsed otherwise.         *)
(***************************************************************************)
LineChars == {"a", "b", ".", " ", "|"}

Lines == UNION { [1..n -> LineChars] : n \in 0..MaxLineLen }

InitParse ==
    /\ order_file = <<>>
    /\ disk = NoFiles
    /\ pc = "line_in"
    /\ ProgramStart
    /\ text \in Lines
    /\ out = <<>>

\* a blank line is filtered out of valid_lines
DropBlankLine ==
    /\ pc = "line_in"
    /\ ValidLines(<<text>>) = <<>>
    /\ pc' = "dropped"
    /\ UNCHANGED <<mainVars, text, out>>

\* a non-blank line is stripped, then split into filename and title
ParseOrderLine ==
    /\ pc = "line_in"
    /\ ValidLines(<<text>>) # <<>>
    /\ out' = ParseLine(ValidLines(<<text>>)[1])
    /\ pc' = "parsed"
    /\ UNCHANGED <<mainVars, text>>

NextParse ==
    \/ DropBlankLine
    \/ ParseOrderLine

SpecParse == InitParse /\ [][NextParse]_vars

(***************************************************************************)
(* Properties.                                                             *)
(***************************************************************************)
Last(q) == q[Len(q)]

\* index of the first occurrence of c in s, 0 when there is none
FirstIndex(s, c) ==
    LET at == {n \in 1..Len(s) : s[n] = c}
    IN  IF at = {} THEN 0 ELSE CHOOSE n \in at : \A m \in at : n <= m

\* the order entry of line n, its path, and whether that file is on disk
EntryOfLine == [l \in {strip(r) : r \in RawLines} \ {<<>>} |-> ParseLine(l)]
PathOfLine == [l \in DOMAIN EntryOfLine |-> path_join(InputDir, EntryOfLine[l].filename)]
EntryAt(n) == EntryOfLine[valid_lines[n]]
PathAt(n) == PathOfLine[valid_lines[n]]
OnDisk(n) == PathAt(n) \in DOMAIN disk /\ disk[PathAt(n)].kind = "file"
StreamAt(n) == disk[PathAt(n)].probe.streams[1]

\* the lines among the first m whose file is on disk, in order
RECURSIVE PresentIdx(_)
PresentIdx(m) ==
    IF m = 0 THEN <<>>
    ELSE PresentIdx(m - 1) \o (IF OnDisk(m) THEN <<m>> ELSE <<>>)

\* the lines the loop has finished with
Done == PresentIdx(i - 1)

\* the run ended inside the loop, on line i
AbortedInLoop == pc = "exited" /\ i <= Len(valid_lines)

CountOf(q, x) == Cardinality({n \in 1..Len(q) : q[n] = x})

RECURSIVE TotalNs(_)
TotalNs(idx) ==
    IF idx = <<>> THEN 0
    ELSE TotalNs(SubSeq(idx, 1, Len(idx) - 1))
         + DurationNs(disk[PathAt(Last(idx))].probe.duration)

\* C1: whenever the process has terminated, neither files_to_concat.txt
\* nor metadata.txt exists any more (on success and on every failure path).
C1_ArtifactsDeletedOnEveryExit ==
    pc = "exited" => ~concat_exists /\ ~metadata_exists

\* C2: the exit status is zero exactly when the muxer completed
\* successfully (and then the success message was printed); every fatal
\* error, a failing muxer included, ends with a non-zero status.
C2_ExitStatusReflectsOutcome ==
    pc = "exited" =>
        /\ exit_code = 0 <=> (ffmpeg_rc = 0 /\ Last(stdout) = "success")
        /\ ffmpeg_rc = 1 => exit_code # 0

\* C3: at every point the first chapter starts at 0, each chapter ends where
\* the next one starts, and the cursor is the end of the last chapter.
C3_ContiguousTimeline ==
    /\ chapters # <<>> => chapters[1].start = 0
    /\ \A j \in 1..(Len(chapters) - 1) : chapters[j].end = chapters[j + 1].start
    /\ current_time_ns = IF chapters = <<>> THEN 0 ELSE Last(chapters).end

C3_Witness ==
    /\ Len(chapters) = 3
    /\ chapters[2].start > 0
    /\ chapters[3].start > chapters[2].start
    /\ current_time_ns > chapters[3].start

\* C4: the reference profile is that of the first probed file, taken
\* unchecked; every chapter comes from a file with the reference's sample
\* rate and channel count; a run that met a differing file ended there with
\* status 1, with no chapter for that file and without invoking the muxer.
C4_ReferenceProfile ==
    /\ analysis_ref = None <=> chapters = <<>>
    /\ LET done == Done IN
        /\ Len(chapters) = Len(done)
        /\ chapters # <<>> =>
               /\ analysis_ref.sample_rate = StreamAt(done[1]).sample_rate
               /\ analysis_ref.channels = StreamAt(done[1]).channels
        /\ \A j \in 1..Len(chapters) :
               /\ StreamAt(done[j]).sample_rate = analysis_ref.sample_rate
               /\ StreamAt(done[j]).channels = analysis_ref.channels
    /\ (pc = "exited" /\ stdout # <<>>
          /\ Last(stdout) \in {"error_sample_rate", "error_channels"}) =>
           /\ exit_code = 1
           /\ ffmpeg_calls = 0
           /\ ~metadata_exists
           /\ i <= Len(valid_lines)
           /\ OnDisk(i)
           /\ analysis_ref # None
           /\ Last(stdout) = "error_sample_rate" =>
                  StreamAt(i).sample_rate # analysis_ref.sample_rate
           /\ Last(stdout) = "error_channels" =>
                  /\ StreamAt(i).sample_rate = analysis_ref.sample_rate
                  /\ StreamAt(i).channels # analysis_ref.channels
    /\ ffmpeg_calls > 0 =>
           \A n \in 1..Len(valid_lines) : OnDisk(n) =>
               /\ StreamAt(n).sample_rate = analysis_ref.sample_rate
               /\ StreamAt(n).channels = analysis_ref.channels

C4_Witness ==
    /\ pc = "exited"
    /\ stdout # <<>>
    /\ Last(stdout) = "error_channels"
    /\ Len(chapters) = 2
    /\ exit_code = 1

\* C5: a line whose file is missing is skipped with one warning and nothing
\* else: the warnings count the missing lines passed, the chapters, manifest
\* lines and probes are exactly those of the lines whose file exists, in
\* order, the cursor is the sum of their durations, and the run never ends
\* on a missing file.
C5_MissingFilesSkipped ==
    /\ LET done == Done IN
        /\ CountOf(stdout, "warning_not_found") = (i - 1) - Len(done)
        /\ Len(chapters) = Len(done)
        /\ \A j \in 1..Len(chapters) :
               chapters[j].title = EntryAt(done[j]).chapter_title
        /\ concat_file = [j \in 1..Len(done) |-> SafePath(PathAt(done[j]))]
        /\ probes = [j \in 1..Len(done) |-> PathAt(done[j])]
                    \o (IF AbortedInLoop THEN <<PathAt(i)>> ELSE <<>>)
        /\ current_time_ns = TotalNs(done)
    /\ AbortedInLoop => OnDisk(i)
    /\ pc \in {"check_chapters", "write_meta", "join", "cleanup"} =>
           i = Len(valid_lines) + 1

C5_Witness ==
    /\ pc = "join"
    /\ Len(valid_lines) = 3
    /\ ~OnDisk(2)
    /\ Len(chapters) = 2
    /\ CountOf(stdout, "warning_not_found") = 1

\* the order file was read and none of its entries names a file on disk
NoEntryOnDisk ==
    /\ pc # "read_order"
    /\ ~(pc = "exited" /\ Last(stdout) = "error_order_file")
    /\ \A n \in 1..Len(valid_lines) : ~OnDisk(n)

\* C6: when no order entry names an existing file (no lines, blank lines
\* only, or all files missing) the run never writes metadata.txt and never
\* invokes ffmpeg, and when it has ended it has printed "no valid files"
\* last and exited with status 1.
C6_NoValidFiles ==
    NoEntryOnDisk =>
        /\ ~metadata_exists
        /\ meta_file = <<>>
        /\ ffmpeg_calls = 0
        /\ pc \in {"open_concat", "loop", "check_chapters", "exited"}
        /\ pc = "exited" => exit_code = 1 /\ Last(stdout) = "no_valid_files"

C6_Witness ==
    /\ NoEntryOnDisk
    /\ pc = "exited"
    /\ Len(valid_lines) = 2
    /\ Len(order_file) = 3
    /\ Last(stdout) = "no_valid_files"

Reserved == {"\\", "=", ";", "#"}

\* every reserved character is the second half of a backslash pair
RECURSIVE WellEscaped(_)
WellEscaped(q) ==
    IF q = <<>> THEN TRUE
    ELSE IF Head(q) = "\\"
         THEN Len(q) >= 2 /\ q[2] \in Reserved /\ WellEscaped(SubSeq(q, 3, Len(q)))
         ELSE Head(q) \notin Reserved /\ WellEscaped(Tail(q))

\* drop each escaping backslash and keep the character after it
RECURSIVE Unescape(_)
Unescape(q) ==
    IF q = <<>> THEN <<>>
    ELSE IF Head(q) = "\\" /\ Len(q) >= 2
         THEN <<q[2]>> \o Unescape(SubSeq(q, 3, Len(q)))
         ELSE <<Head(q)>> \o Unescape(Tail(q))

\* C7: the escaped title has every reserved character behind exactly one
\* escaping backslash, and un-escaping it gives the title back.
C7_EscapeRoundTrip ==
    pc = "escaped" => WellEscaped(out) /\ Unescape(out) = text

\* a title with a backslash and another reserved character, which the
\* backslash-last order does not bring back
C7_Witness ==
    /\ pc = "escaped"
    /\ \E n \in 1..Len(text) : text[n] = "\\"
    /\ \E n \in 1..Len(text) : text[n] \in Reserved \ {"\\"}
    /\ Unescape(out) = text
    /\ Unescape(escape_backslash_last(text)) # text

\* C8: the filename is the stripped text before the first "|"; the title is
\* the stripped whole remainder after the first "|", and without a "|" the
\* filename without its extension.
C8_SplitOnFirstBar ==
    pc = "parsed" =>
        LET line == strip(text)
            bar == FirstIndex(line, "|")
            name == strip(IF bar = 0 THEN line ELSE SubSeq(line, 1, bar - 1))
        IN  /\ out.filename = name
            /\ out.chapter_title =
                   IF bar = 0 THEN splitext_root(name)
                   ELSE strip(SubSeq(line, bar + 1, Len(line)))

\* C9: every chapter has start < end.
C9_PositiveChapters ==
    \A j \in 1..Len(chapters) : chapters[j].start < chapters[j].end

\* the artifacts are final: manifest closed, metadata.txt closed and holding
\* the header and one block per chapter
ArtifactsComplete ==
    /\ ~concat_open
    /\ ~meta_open
    /\ concat_exists
    /\ metadata_exists
    /\ Len(concat_file) = Len(chapters)
    /\ Len(meta_file) = Len(chapters) + 1
    /\ \A j \in 1..Len(chapters) :
           /\ meta_file[j + 1].START = chapters[j].start
           /\ meta_file[j + 1].END = chapters[j].end

\* C10: the files on disk are probed once each in order-file order; ffmpeg
\* is invoked at most once, and when it starts every line has been handled,
\* the manifest is closed and metadata.txt is complete; after it has started
\* nothing is probed, validated or written any more.
C10_StrictOrder ==
    /\ [](/\ ffmpeg_calls <= 1
          /\ LET done == Done IN
              /\ Len(probes) = Len(done) + (IF AbortedInLoop THEN 1 ELSE 0)
              /\ \A j \in 1..Len(done) : probes[j] = PathAt(done[j])
          /\ pc = "join" =>
                 /\ ffmpeg_calls = 0
                 /\ i = Len(valid_lines) + 1
                 /\ ArtifactsComplete
          /\ (ffmpeg_calls = 1 /\ pc = "cleanup") =>
                 /\ i = Len(valid_lines) + 1
                 /\ ArtifactsComplete)
    /\ [][ffmpeg_calls >= 1 =>
            /\ probes' = probes
            /\ chapters' = chapters
            /\ analysis_ref' = analysis_ref
            /\ concat_file' = concat_file
            /\ meta_file' = meta_file
            /\ ffmpeg_calls' = ffmpeg_calls]_vars

C10_Witness ==
    /\ pc = "cleanup"
    /\ ffmpeg_calls = 1
    /\ Len(probes) = 3
    /\ probes[1] # probes[2]

====
